---- MODULE Spec2Model ----
(***************************************************************************)
(* Bookmark manager: the folder/bookmark store, the folder tree walks, the *)
(* bookmark filter and the selection hooks, as state machines.             *)
(*                                                                         *)
(* Two compositions of the sources are modelled, told apart by `build`:    *)
(*   "App"   - src/src/App.tsx, which keeps the store in its own useState  *)
(*             cells and names new entities by collection length;          *)
(*   "hooks" - the hooks useFolders / useBookmarks / useSelectedFolder /   *)
(*             useSelectedTag / useConfig / useAuth, which name new        *)
(*             entities by Date.now().                                     *)
(*                                                                         *)
(* Strings that are only compared are tuples <<prefix, n>> standing for    *)
(* the template string `${prefix}${n}`; strings that are searched, trimmed *)
(* or lower-cased are sequences of one-character strings.                  *)
(***************************************************************************)
EXTENDS Integers, Sequences, FiniteSets, TLC

VARIABLES
    build,              \* which composition runs
    now,                \* Date.now()
    apiKey,             \* config.apiKey
    isAuthenticated,    \* authState.isAuthenticated
    flattenSubfolders,  \* config.flattenSubfolders
    folders,            \* Folder[]
    bookmarks,          \* Bookmark[]
    selectedFolder,     \* string | null
    selectedTag,        \* string | null
    searchQuery,        \* string
    selectedBookmark,   \* Bookmark | null   (App)
    showRightPanel,     \* boolean           (App)
    showConfigModal,    \* boolean           (App)
    urlFolder,          \* the 'folder' parameter of window.location
    urlTag,             \* the 'tag' parameter of window.location
    hist,               \* the session history: entries [state, folder, tag]
    histIdx,            \* the current entry of the session history
    last                \* the latest handler call: its name and argument, whether the gate let
                        \* it through, what it returned

storeVars == <<folders, bookmarks>>
authVars  == <<apiKey, isAuthenticated>>
viewVars  == <<selectedFolder, selectedTag, searchQuery, flattenSubfolders>>
panelVars == <<selectedBookmark, showRightPanel, showConfigModal>>
navVars   == <<urlFolder, urlTag, hist, histIdx>>
vars == <<build, now, apiKey, isAuthenticated, flattenSubfolders, folders, bookmarks,
          selectedFolder, selectedTag, searchQuery, selectedBookmark, showRightPanel,
          showConfigModal, urlFolder, urlTag, hist, histIdx, last>>

(***************************************************************************)
(* Bounds of the model                                                     *)
(***************************************************************************)
MaxFolders == 2      \* createFolder is not taken beyond this many folders
MaxBookmarks == 2    \* addBookmark is not taken beyond this many bookmarks
MaxNow == 1          \* the clock does not advance by more than this many milliseconds
MaxHist == 5         \* pushState is not taken beyond this many history entries

(***************************************************************************)
(* Values                                                                  *)
(***************************************************************************)
\* Date.now() when the page loads: later than any number the sample data or a
\* collection length puts into an id
Epoch == MaxFolders + MaxBookmarks + 2

Null == <<"null", 0>>
EmptyStr == <<"", 0>>
All == <<"all", 0>>
Favorites == <<"favorites", 0>>
FolderId(n) == <<"folder-", n>>
BookmarkId(n) == <<"bookmark-", n>>
\* the recursion of a tree walk went deeper than any acyclic collection allows
Diverged == <<"RangeError", 0>>

\* JavaScript truthiness of a string | null
Truthy(x) == x # Null /\ x # EmptyStr

Range(s) == {s[i] : i \in 1..Len(s)}

RECURSIVE SeqFilterIdx(_, _, _)
SeqFilterIdx(s, keep, i) ==
    IF i > Len(s) THEN <<>>
    ELSE (IF keep[i] THEN <<s[i]>> ELSE <<>>) \o SeqFilterIdx(s, keep, i + 1)

\* Array.prototype.filter, the predicate given as the array of its results
ArrayFilter(s, keep) == SeqFilterIdx(s, keep, 1)

RECURSIVE Flatten(_)
Flatten(ss) == IF ss = <<>> THEN <<>> ELSE Head(ss) \o Flatten(Tail(ss))

(***************************************************************************)
(* Text                                                                    *)
(***************************************************************************)
UpperCase == <<"A", "B", "C", "D", "E", "F", "G", "H", "I", "J", "K", "L", "M",
               "N", "O", "P", "Q", "R", "S", "T", "U", "V", "W", "X", "Y", "Z">>
LowerCase == <<"a", "b", "c", "d", "e", "f", "g", "h", "i", "j", "k", "l", "m",
               "n", "o", "p", "q", "r", "s", "t", "u", "v", "w", "x", "y", "z">>

ToLowerChar(c) ==
    IF \E i \in 1..Len(UpperCase) : UpperCase[i] = c
    THEN LowerCase[CHOOSE i \in 1..Len(UpperCase) : UpperCase[i] = c]
    ELSE c

\* String.prototype.toLowerCase
ToLowerCase(s) == [i \in 1..Len(s) |-> ToLowerChar(s[i])]

\* String.prototype.includes
Includes(s, q) ==
    \E i \in 0..(Len(s) - Len(q)) : SubSeq(s, i + 1, i + Len(q)) = q

IsSpace(c) == c = " "

RECURSIVE TrimStart(_)
TrimStart(s) ==
    IF s # <<>> /\ IsSpace(Head(s)) THEN TrimStart(Tail(s)) ELSE s

RECURSIVE TrimEnd(_)
TrimEnd(s) ==
    IF s # <<>> /\ IsSpace(s[Len(s)]) THEN TrimEnd(SubSeq(s, 1, Len(s) - 1)) ELSE s

\* String.prototype.trim
Trim(s) == TrimEnd(TrimStart(s))

(***************************************************************************)
(* Folder tree walks                                                       *)
(***************************************************************************)
\* folders.filter(f => f.parentId === folderId).map(f => f.id)
DirectChildren_OrSelf(fs, folderId) ==
    LET kids == ArrayFilter(fs, [i \in 1..Len(fs) |->
                                    fs[i].parentId = folderId \/ fs[i].id = folderId])
    IN  [i \in 1..Len(kids) |-> kids[i].id]

DirectChildren(fs, folderId) ==
    LET kids == ArrayFilter(fs, [i \in 1..Len(fs) |-> fs[i].parentId = folderId])
    IN  [i \in 1..Len(kids) |-> kids[i].id]

\* The recursion of getAllChildFolderIds with the call depth made explicit: on an
\* acyclic collection a chain of nested calls visits distinct folders, so depth
\* Len(fs) + 1 is never exhausted; on a cyclic one the code recurses until the
\* engine's stack overflows, which is the result <<Diverged>>.
RECURSIVE ChildIdsWalk(_, _, _)
ChildIdsWalk(fs, folderId, depth) ==
    IF depth = 0 THEN <<Diverged>>
    ELSE LET directChildren == DirectChildren(fs, folderId)
         IN  directChildren \o
             Flatten([i \in 1..Len(directChildren) |->
                         ChildIdsWalk(fs, directChildren[i], depth - 1)])

GetAllChildFolderIdsOf_WithSelf(fs, folderId) ==
    LET r == <<folderId>> \o ChildIdsWalk(fs, folderId, Len(fs) + 1)
    IN  IF Diverged \in Range(r) THEN <<Diverged>> ELSE r

GetAllChildFolderIdsOf(fs, folderId) ==
    LET r == ChildIdsWalk(fs, folderId, Len(fs) + 1)
    IN  IF Diverged \in Range(r) THEN <<Diverged>> ELSE r

getAllChildFolderIds(folderId) == GetAllChildFolderIdsOf(folders, folderId)

\* folders.find(f => f.id === id), as the index of the first match (0: none)
FindFolder(fs, id) ==
    IF \E i \in 1..Len(fs) : fs[i].id = id
    THEN CHOOSE i \in 1..Len(fs) : fs[i].id = id /\ \A j \in 1..(i - 1) : fs[j].id # id
    ELSE 0

\* what a count is when the recursion never returns (the engine's stack overflows)
CountDiverged == -1

RECURSIVE SumOf(_)
SumOf(counts) == IF counts = <<>> THEN 0 ELSE Head(counts) + SumOf(Tail(counts))

\* The recursion of countFolderBookmarks, with the call depth made explicit as in
\* ChildIdsWalk.
RECURSIVE CountWalk(_, _, _, _)
CountWalk(fs, bs, folderId, depth) ==
    IF depth = 0 THEN CountDiverged
    ELSE LET directBookmarks ==
                 Len(ArrayFilter(bs, [i \in 1..Len(bs) |-> bs[i].folderId = folderId]))
             subfolderIds == DirectChildren(fs, folderId)
             counts == [i \in 1..Len(subfolderIds) |->
                           CountWalk(fs, bs, subfolderIds[i], depth - 1)]
         IN  IF CountDiverged \in Range(counts) THEN CountDiverged
             ELSE directBookmarks + SumOf(counts)

CountFolderBookmarksOf_DirectOnly(fs, bs, folderId) ==
    Len(ArrayFilter(bs, [i \in 1..Len(bs) |-> bs[i].folderId = folderId]))

CountFolderBookmarksOf(fs, bs, folderId) == CountWalk(fs, bs, folderId, Len(fs) + 1)

countFolderBookmarks(folderId) == CountFolderBookmarksOf(folders, bookmarks, folderId)

AllBookmarksText == <<"A", "l", "l", " ", "B", "o", "o", "k", "m", "a", "r", "k", "s">>
FavoritesText == <<"F", "a", "v", "o", "r", "i", "t", "e", "s">>
UnknownFolderText == <<"U", "n", "k", "n", "o", "w", "n", " ", "F", "o", "l", "d", "e", "r">>
PathSeparator == <<" ", ">", " ">>

\* what a path is when the recursion never returns
PathDiverged == <<"RangeError">>

\* getParentPath of the folder at index i, with the call depth made explicit
RECURSIVE ParentPathWalk(_, _, _)
ParentPathWalk(fs, i, depth) ==
    IF depth = 0 THEN PathDiverged
    ELSE IF ~Truthy(fs[i].parentId) THEN fs[i].name
    ELSE LET parent == FindFolder(fs, fs[i].parentId)
         IN  IF parent = 0 THEN fs[i].name
             ELSE LET parentPath == ParentPathWalk(fs, parent, depth - 1)
                  IN  IF parentPath = PathDiverged THEN PathDiverged
                      ELSE parentPath \o PathSeparator \o fs[i].name

GetFolderPathNameOf_Strict(fs, folderId) ==
    IF ~Truthy(folderId) THEN AllBookmarksText
    ELSE IF folderId = All THEN AllBookmarksText
    ELSE IF folderId = Favorites THEN FavoritesText
    ELSE IF FindFolder(fs, folderId) = 0 THEN UnknownFolderText
    ELSE IF /\ Truthy(fs[FindFolder(fs, folderId)].parentId)
            /\ FindFolder(fs, fs[FindFolder(fs, folderId)].parentId) = 0
         THEN UnknownFolderText
    ELSE ParentPathWalk(fs, FindFolder(fs, folderId), Len(fs) + 1)

GetFolderPathNameOf_NameOnly(fs, folderId) ==
    IF ~Truthy(folderId) THEN AllBookmarksText
    ELSE IF folderId = All THEN AllBookmarksText
    ELSE IF folderId = Favorites THEN FavoritesText
    ELSE IF FindFolder(fs, folderId) = 0 THEN UnknownFolderText
    ELSE fs[FindFolder(fs, folderId)].name

GetFolderPathNameOf(fs, folderId) ==
    IF ~Truthy(folderId) THEN AllBookmarksText
    ELSE IF folderId = All THEN AllBookmarksText
    ELSE IF folderId = Favorites THEN FavoritesText
    ELSE IF FindFolder(fs, folderId) = 0 THEN UnknownFolderText
    ELSE ParentPathWalk(fs, FindFolder(fs, folderId), Len(fs) + 1)

getFolderPathName(folderId) == GetFolderPathNameOf(folders, folderId)

\* the ids of the folders whose parentId is in `ids`
ChildIdsOf(fs, ids) == {fs[i].id : i \in {j \in 1..Len(fs) : fs[j].parentId \in ids}}

\* the ids reached from `ids` by going to children, for at most `steps` steps
RECURSIVE DescendantIds(_, _, _)
DescendantIds(fs, ids, steps) ==
    IF steps = 0 \/ ids = {} THEN {}
    ELSE ChildIdsOf(fs, ids) \cup DescendantIds(fs, ChildIdsOf(fs, ids), steps - 1)

\* The chain of folders that getParentPath follows from the folder at index i, as
\* indices, the topmost first: it ends at a folder without parentId, at one whose
\* parentId matches no folder, or after `steps` folders.
RECURSIVE AncestorChain(_, _, _)
AncestorChain(fs, i, steps) ==
    IF steps <= 1 \/ ~Truthy(fs[i].parentId) \/ FindFolder(fs, fs[i].parentId) = 0
    THEN <<i>>
    ELSE Append(AncestorChain(fs, FindFolder(fs, fs[i].parentId), steps - 1), i)

\* the parentId values of the folders whose id is in `ids`
ParentIdsOf(fs, ids) ==
    {fs[i].parentId : i \in {j \in 1..Len(fs) : fs[j].id \in ids /\ Truthy(fs[j].parentId)}}

\* the ids met by following parentId upwards from `ids`, for at most `steps` steps
RECURSIVE AncestorIds(_, _, _)
AncestorIds(fs, ids, steps) ==
    IF steps = 0 \/ ids = {} THEN {}
    ELSE ParentIdsOf(fs, ids) \cup AncestorIds(fs, ParentIdsOf(fs, ids), steps - 1)

\* following parentId from folder i comes back to its id
IsOwnAncestor(fs, i) == fs[i].id \in AncestorIds(fs, {fs[i].id}, Len(fs))

\* the parent graph is a forest
Acyclic(fs) == \A i \in 1..Len(fs) : ~IsOwnAncestor(fs, i)

\* the ids getFolderOptions lists in a folder select: the roots and what is below
ListedFolderIds(fs) ==
    LET roots == {fs[i].id : i \in {j \in 1..Len(fs) : fs[j].parentId = Null}}
    IN  roots \cup DescendantIds(fs, roots, Len(fs))

(***************************************************************************)
(* The bookmark filter                                                     *)
(***************************************************************************)
\* first filter of filteredBookmarks: the scope
MatchesScope(fs, bookmark, selFolder) ==
    IF selFolder = All THEN TRUE
    ELSE IF selFolder = Favorites THEN bookmark.favorite
    ELSE LET folderIds == <<selFolder>> \o GetAllChildFolderIdsOf(fs, selFolder)
         IN  bookmark.folderId \in Range(folderIds)

\* the search looking at the tags alone
MatchesSearch_TagsOnly(bookmark, query) ==
    \E i \in 1..Len(bookmark.tags) :
        Includes(ToLowerCase(bookmark.tags[i]), ToLowerCase(query))

\* second filter of filteredBookmarks: the search
MatchesSearch(bookmark, query) ==
    \/ Includes(ToLowerCase(bookmark.title), ToLowerCase(query))
    \/ Includes(ToLowerCase(bookmark.url), ToLowerCase(query))
    \/ \E i \in 1..Len(bookmark.tags) :
           Includes(ToLowerCase(bookmark.tags[i]), ToLowerCase(query))

\* filteredBookmarks of App.tsx as a function of everything it reads. The selected
\* tag and config.flattenSubfolders are parameters the code never consults.
FilteredBookmarksOf(bs, fs, selFolder, selTag, query, flatten) ==
    LET scoped == ArrayFilter(bs, [i \in 1..Len(bs) |-> MatchesScope(fs, bs[i], selFolder)])
    IN  ArrayFilter(scoped, [i \in 1..Len(scoped) |-> MatchesSearch(scoped[i], query)])

filteredBookmarks ==
    FilteredBookmarksOf(bookmarks, folders, selectedFolder, selectedTag, searchQuery,
                        flattenSubfolders)

\* The filter throws (RangeError: call stack exceeded) exactly when some bookmark
\* reaches the folder branch and the walk from the selected folder does not return.
FilterThrowsOf(bs, fs, selFolder) ==
    /\ bs # <<>>
    /\ selFolder \notin {All, Favorites}
    /\ GetAllChildFolderIdsOf(fs, selFolder) = <<Diverged>>

(***************************************************************************)
(* Inputs of the store machine                                             *)
(***************************************************************************)
NewBookmarkTitle == <<"N", "e", "w", " ", "B", "o", "o", "k", "m", "a", "r", "k">>
ExampleUrl == <<"h", "t", "t", "p", "s", ":", "/", "/", "e", "x", "a", "m", "p", "l", "e",
                ".", "c", "o", "m">>
AddADescription == <<"A", "d", "d", " ", "a", " ", "d", "e", "s", "c", "r", "i", "p", "t",
                     "i", "o", "n">>
NewTag == <<"n", "e", "w">>
\* the placeholder image of handleAddBookmark, a string nothing reads
UnsplashThumbnail == <<"u">>

Folder(id, name, parentId) == [id |-> id, name |-> name, parentId |-> parentId]

\* config.apiKey values a user saves: none, a key of 8 characters, 7 characters padded
ApiKeys == {<<>>,
            <<"k", "k", "k", "k", "k", "k", "k", "k">>,
            <<" ", "k", "k", "k", "k", "k", "k", "k", " ">>}

\* the keys the store machine saves
StoreApiKeys == {<<>>, <<"k", "k", "k", "k", "k", "k", "k", "k">>}

\* the names FolderModal's handleSave passes on: trimmed and not empty
FolderNames == {<<"W">>, <<"H">>}

\* the names createFolder and updateFolder of useFolders are called with
NameArgs == {<<"W">>, <<" ">>}

\* folder ids that arguments are drawn from: those in the store and the next ones
FolderIdArgs == {folders[i].id : i \in 1..Len(folders)} \cup {FolderId(Len(folders) + 1), FolderId(now)}

BookmarkIdArgs == {bookmarks[i].id : i \in 1..Len(bookmarks)} \cup {BookmarkId(MaxBookmarks + 1)}

\* sample.json is no part of the sources: the store starts from one of these
SampleFolders ==
    {<<>>,
     <<Folder(FolderId(1), <<"W">>, Null)>>,
     <<Folder(FolderId(2), <<"W">>, Null)>>}

SampleBookmark ==
    [id |-> BookmarkId(1), title |-> <<"A", "b">>, url |-> ExampleUrl,
     description |-> <<"x">>, thumbnail |-> <<>>, tags |-> <<<<"x">>>>,
     folderId |-> FolderId(1), favorite |-> FALSE, dateAdded |-> 0]

SampleBookmarks == {<<>>, <<SampleBookmark>>}

\* What the details form turns a bookmark into: handleChange stores the value of the
\* changed input under the input's name, which for the option "No Folder" of the
\* folder select is the empty string. The user saves the bookmark as it is or after
\* choosing "No Folder".
Edits(b) ==
    {[b EXCEPT !.folderId = f] : f \in {b.folderId, EmptyStr}}

\* what a handler call leaves for its caller: the handler and its argument, whether
\* the gate let it through and the value it returned; `calls` lists the calls of an
\* event that makes several
CallOf(op, arg, ok, ret) == [op |-> op, arg |-> arg, ok |-> ok, ret |-> ret, calls |-> <<>>]

\* a call of a handler whose argument nothing looks at
Call(op, ok, ret) == CallOf(op, Null, ok, ret)

(***************************************************************************)
(* Authentication                                                          *)
(***************************************************************************)
MinKeyLength == 8

\* the validity test without its trim
IsValid_Untrimmed(key) == key # <<>> /\ Len(key) >= MinKeyLength

\* const isValid = config.apiKey && config.apiKey.trim().length >= 8
IsValid(key) == key # <<>> /\ Len(Trim(key)) >= MinKeyLength

\* ConfigModal's onSave: updateConfig(newConfig), then the effect on config.apiKey
UpdateConfig ==
    \E key \in StoreApiKeys :
        /\ key # apiKey
        /\ apiKey' = key
        /\ isAuthenticated' = IsValid(key)
        /\ last' = Call("updateConfig", TRUE, "undefined")
        /\ UNCHANGED <<build, now, storeVars, viewVars, panelVars, navVars>>

\* updateConfig(newConfig) with any key, which it stores unchecked (only ConfigModal's
\* handleSave tests a key before it calls onSave), then the effect on config.apiKey
SaveConfig ==
    \E key \in ApiKeys :
        /\ key # apiKey
        /\ apiKey' = key
        /\ isAuthenticated' = IsValid(key)
        /\ last' = Call("updateConfig", TRUE, "undefined")
        /\ UNCHANGED <<build, now, storeVars, viewVars, panelVars, navVars>>

\* time passes
Tick ==
    /\ now < Epoch + MaxNow
    /\ now' = now + 1
    /\ UNCHANGED <<build, authVars, storeVars, viewVars, panelVars, navVars, last>>

(***************************************************************************)
(* The store of the hooks build: useFolders, useBookmarks                  *)
(***************************************************************************)
NewFolderOf(id, name, parentId) == Folder(id, name, parentId)

useFolders_createFolder ==
    \E name \in NameArgs, parentId \in {Null} \cup FolderIdArgs :
        /\ build = "hooks"
        /\ Len(folders) < MaxFolders
        /\ IF ~isAuthenticated
           THEN /\ last' = CallOf("createFolder", parentId, FALSE, "undefined")
                /\ UNCHANGED folders
           ELSE /\ folders' = Append(folders, NewFolderOf(FolderId(now), name, parentId))
                /\ last' = CallOf("createFolder", parentId, TRUE, "undefined")
        /\ UNCHANGED <<build, now, authVars, bookmarks, viewVars, panelVars, navVars>>

RenameIn(fs, folderId, newName) ==
    [i \in 1..Len(fs) |-> IF fs[i].id = folderId THEN [fs[i] EXCEPT !.name = newName] ELSE fs[i]]

useFolders_updateFolder ==
    \E folderId \in FolderIdArgs, newName \in NameArgs :
        /\ build = "hooks"
        /\ IF ~isAuthenticated
           THEN /\ last' = CallOf("updateFolder", folderId, FALSE, "undefined")
                /\ UNCHANGED folders
           ELSE /\ folders' = RenameIn(folders, folderId, newName)
                /\ last' = CallOf("updateFolder", folderId, TRUE, "undefined")
        /\ UNCHANGED <<build, now, authVars, bookmarks, viewVars, panelVars, navVars>>

\* folderId of a new bookmark
ScopeFolderId(scope) == IF scope = All \/ scope = Favorites THEN Null ELSE scope

\* a new bookmark filed under the scope as it is
HookNewBookmark_Verbatim(scope) ==
    [id |-> BookmarkId(now), title |-> NewBookmarkTitle, url |-> ExampleUrl,
     description |-> AddADescription, thumbnail |-> <<>>, tags |-> <<>>,
     folderId |-> scope, favorite |-> FALSE, dateAdded |-> now]

HookNewBookmark(scope) ==
    [id |-> BookmarkId(now), title |-> NewBookmarkTitle, url |-> ExampleUrl,
     description |-> AddADescription, thumbnail |-> <<>>, tags |-> <<>>,
     folderId |-> ScopeFolderId(scope), favorite |-> FALSE, dateAdded |-> now]

\* the selectedFolder values addBookmark is called with: the two fixed scopes, the
\* id of a folder and an id that no folder has
AddScopes == {All, Favorites, FolderId(1), FolderId(MaxFolders + 1)}

useBookmarks_addBookmark ==
    \E scope \in AddScopes :
        /\ build = "hooks"
        /\ Len(bookmarks) < MaxBookmarks
        /\ IF ~isAuthenticated
           THEN /\ last' = CallOf("addBookmark", scope, FALSE, "null")
                /\ UNCHANGED bookmarks
           ELSE /\ bookmarks' = Append(bookmarks, HookNewBookmark(scope))
                /\ last' = CallOf("addBookmark", scope, TRUE, "bookmark")
        /\ UNCHANGED <<build, now, authVars, folders, viewVars, panelVars, navVars>>

ReplaceIn(bs, updatedBookmark) ==
    [i \in 1..Len(bs) |-> IF bs[i].id = updatedBookmark.id THEN updatedBookmark ELSE bs[i]]

RemoveFrom(bs, id) == ArrayFilter(bs, [i \in 1..Len(bs) |-> bs[i].id # id])

ToggleIn(bs, id) ==
    [i \in 1..Len(bs) |-> IF bs[i].id = id THEN [bs[i] EXCEPT !.favorite = ~bs[i].favorite] ELSE bs[i]]

\* the bookmarks a caller can pass to updateBookmark: an edit of a stored one, or
\* one whose id the store does not hold
UpdateArgs ==
    UNION {Edits(bookmarks[i]) : i \in 1..Len(bookmarks)}
    \cup {[SampleBookmark EXCEPT !.id = BookmarkId(MaxBookmarks + 1)]}

useBookmarks_updateBookmark ==
    \E updatedBookmark \in UpdateArgs :
        /\ build = "hooks"
        /\ IF ~isAuthenticated
           THEN /\ last' = CallOf("updateBookmark", updatedBookmark.id, FALSE, "undefined")
                /\ UNCHANGED bookmarks
           ELSE /\ bookmarks' = ReplaceIn(bookmarks, updatedBookmark)
                /\ last' = CallOf("updateBookmark", updatedBookmark.id, TRUE, "undefined")
        /\ UNCHANGED <<build, now, authVars, folders, viewVars, panelVars, navVars>>

useBookmarks_deleteBookmark ==
    \E id \in BookmarkIdArgs :
        /\ build = "hooks"
        /\ IF ~isAuthenticated
           THEN /\ last' = CallOf("deleteBookmark", id, FALSE, "undefined")
                /\ UNCHANGED bookmarks
           ELSE /\ bookmarks' = RemoveFrom(bookmarks, id)
                /\ last' = CallOf("deleteBookmark", id, TRUE, "undefined")
        /\ UNCHANGED <<build, now, authVars, folders, viewVars, panelVars, navVars>>

\* toggleFavorite without its authentication check
toggleFavorite_Ungated ==
    \E id \in BookmarkIdArgs :
        /\ build = "hooks"
        /\ bookmarks' = ToggleIn(bookmarks, id)
        /\ last' = CallOf("toggleFavorite", id, isAuthenticated, "undefined")
        /\ UNCHANGED <<build, now, authVars, folders, viewVars, panelVars, navVars>>

useBookmarks_toggleFavorite ==
    \E id \in BookmarkIdArgs :
        /\ build = "hooks"
        /\ IF ~isAuthenticated
           THEN /\ last' = CallOf("toggleFavorite", id, FALSE, "undefined")
                /\ UNCHANGED bookmarks
           ELSE /\ bookmarks' = ToggleIn(bookmarks, id)
                /\ last' = CallOf("toggleFavorite", id, TRUE, "undefined")
        /\ UNCHANGED <<build, now, authVars, folders, viewVars, panelVars, navVars>>

\* One call of a mutation of useBookmarks, as data: the operation and its argument
BookmarkCalls ==
    {[op |-> o, arg |-> id] : o \in {"toggleFavorite", "deleteBookmark"}, id \in BookmarkIdArgs}
    \cup {[op |-> "addBookmark", arg |-> scope] : scope \in {All, FolderId(1)}}

\* the array an accepted call passes to setBookmarks when the bookmarks its closure
\* holds are bs
SetBookmarksArg(bs, call) ==
    IF call.op = "toggleFavorite" THEN ToggleIn(bs, call.arg)
    ELSE IF call.op = "deleteBookmark" THEN RemoveFrom(bs, call.arg)
    ELSE Append(bs, HookNewBookmark(call.arg))

\* Two accepted calls made through the functions of one render, with no render in
\* between: both closures hold the bookmarks of that render, each call passes an
\* array built from them to setBookmarks, and the next render sees the second array.
useBookmarks_twoCallsInOneRender ==
    \E first \in BookmarkCalls, second \in BookmarkCalls :
        /\ build = "hooks"
        /\ isAuthenticated
        /\ Len(SetBookmarksArg(bookmarks, second)) <= MaxBookmarks
        /\ bookmarks' = SetBookmarksArg(bookmarks, second)
        /\ last' = [CallOf(second.op, second.arg, TRUE,
                           IF second.op = "addBookmark" THEN "bookmark" ELSE "undefined")
                       EXCEPT !.calls = <<first, second>>]
        /\ UNCHANGED <<build, now, authVars, folders, viewVars, panelVars, navVars>>

(***************************************************************************)
(* The store of the App build: src/src/App.tsx                             *)
(***************************************************************************)
\* Sidebar's onSelectFolder={setSelectedFolder}: 'all', 'favorites' or a listed folder
App_setSelectedFolder ==
    \E f \in {All, Favorites} \cup {folders[i].id : i \in 1..Len(folders)} :
        /\ build = "App"
        /\ selectedFolder' = f
        /\ last' = Call("setSelectedFolder", TRUE, "undefined")
        /\ UNCHANGED <<build, now, authVars, storeVars, selectedTag, searchQuery,
                       flattenSubfolders, panelVars, navVars>>

App_handleBookmarkClick ==
    \E i \in 1..Len(filteredBookmarks) :
        /\ build = "App"
        /\ ~FilterThrowsOf(bookmarks, folders, selectedFolder)
        /\ selectedBookmark' = <<filteredBookmarks[i]>>
        /\ showRightPanel' = TRUE
        /\ last' = Call("handleBookmarkClick", TRUE, "undefined")
        /\ UNCHANGED <<build, now, authVars, storeVars, viewVars, showConfigModal, navVars>>

\* onClose of BookmarkDetails and of ConfigModal
App_closePanels ==
    /\ build = "App"
    /\ \/ showRightPanel /\ showRightPanel' = FALSE /\ UNCHANGED showConfigModal
       \/ showConfigModal /\ showConfigModal' = FALSE /\ UNCHANGED showRightPanel
    /\ last' = Call("onClose", TRUE, "undefined")
    /\ UNCHANGED <<build, now, authVars, storeVars, viewVars, selectedBookmark, navVars>>

\* what every App handler does when authState.isAuthenticated is false
App_reject(op) ==
    /\ showConfigModal' = TRUE
    /\ last' = Call(op, FALSE, "undefined")
    /\ UNCHANGED <<storeVars, selectedBookmark, showRightPanel>>

AppNewBookmark ==
    [id |-> BookmarkId(Len(bookmarks) + 1), title |-> NewBookmarkTitle, url |-> ExampleUrl,
     description |-> AddADescription, thumbnail |-> UnsplashThumbnail, tags |-> <<NewTag>>,
     folderId |-> ScopeFolderId(selectedFolder), favorite |-> FALSE, dateAdded |-> now]

App_handleAddBookmark ==
    /\ build = "App"
    /\ Len(bookmarks) < MaxBookmarks
    /\ IF ~isAuthenticated
       THEN App_reject("handleAddBookmark")
       ELSE /\ bookmarks' = Append(bookmarks, AppNewBookmark)
            /\ selectedBookmark' = <<AppNewBookmark>>
            /\ showRightPanel' = TRUE
            /\ last' = CallOf("handleAddBookmark", selectedFolder, TRUE, "undefined")
            /\ UNCHANGED <<folders, showConfigModal>>
    /\ UNCHANGED <<build, now, authVars, viewVars, navVars>>

\* updateBookmark of App.tsx has one caller, handleSave of BookmarkDetails, which
\* passes its editedBookmark: an edit of the bookmark prop, that is of selectedBookmark
AppUpdateArgs ==
    UNION {Edits(selectedBookmark[i]) : i \in 1..Len(selectedBookmark)}

App_updateBookmark ==
    \E updatedBookmark \in AppUpdateArgs :
        /\ build = "App"
        /\ IF ~isAuthenticated
           THEN App_reject("updateBookmark")
           ELSE /\ bookmarks' = ReplaceIn(bookmarks, updatedBookmark)
                /\ selectedBookmark' = <<updatedBookmark>>
                /\ last' = CallOf("updateBookmark", updatedBookmark.id, TRUE, "undefined")
                /\ UNCHANGED <<folders, showRightPanel, showConfigModal>>
        /\ UNCHANGED <<build, now, authVars, viewVars, navVars>>

App_deleteBookmark ==
    \E id \in BookmarkIdArgs :
        /\ build = "App"
        /\ IF ~isAuthenticated
           THEN App_reject("deleteBookmark")
           ELSE /\ bookmarks' = RemoveFrom(bookmarks, id)
                /\ IF selectedBookmark # <<>> /\ selectedBookmark[1].id = id
                   THEN selectedBookmark' = <<>> /\ showRightPanel' = FALSE
                   ELSE UNCHANGED <<selectedBookmark, showRightPanel>>
                /\ last' = CallOf("deleteBookmark", id, TRUE, "undefined")
                /\ UNCHANGED <<folders, showConfigModal>>
        /\ UNCHANGED <<build, now, authVars, viewVars, navVars>>

App_toggleFavorite ==
    \E id \in BookmarkIdArgs :
        /\ build = "App"
        /\ IF ~isAuthenticated
           THEN App_reject("toggleFavorite")
           ELSE /\ bookmarks' = ToggleIn(bookmarks, id)
                /\ IF selectedBookmark # <<>> /\ selectedBookmark[1].id = id
                   THEN selectedBookmark' =
                            <<[selectedBookmark[1] EXCEPT !.favorite = ~selectedBookmark[1].favorite]>>
                   ELSE UNCHANGED selectedBookmark
                /\ last' = CallOf("toggleFavorite", id, TRUE, "undefined")
                /\ UNCHANGED <<folders, showRightPanel, showConfigModal>>
        /\ UNCHANGED <<build, now, authVars, viewVars, navVars>>

App_createFolder ==
    \E name \in FolderNames, parentId \in {Null} \cup FolderIdArgs :
        /\ build = "App"
        /\ Len(folders) < MaxFolders
        /\ IF ~isAuthenticated
           THEN App_reject("createFolder")
           ELSE /\ folders' = Append(folders, NewFolderOf(FolderId(Len(folders) + 1), name, parentId))
                /\ last' = CallOf("createFolder", parentId, TRUE, "undefined")
                /\ UNCHANGED <<bookmarks, panelVars>>
        /\ UNCHANGED <<build, now, authVars, viewVars, navVars>>

(***************************************************************************)
(* Specifications                                                          *)
(***************************************************************************)
\* what every machine starts from, the store and the build left open
InitUI ==
    /\ now = Epoch
    /\ apiKey = <<>>
    /\ isAuthenticated = FALSE
    /\ flattenSubfolders = TRUE
    /\ selectedFolder = All
    /\ selectedTag = Null
    /\ searchQuery = <<>>
    /\ selectedBookmark = <<>>
    /\ showRightPanel = FALSE
    /\ showConfigModal = FALSE
    /\ urlFolder = Null
    /\ urlTag = Null
    /\ hist = <<>>
    /\ histIdx = 0
    /\ last = Call("mount", TRUE, "undefined")

\* The store of the hooks build: useFolders and useBookmarks behind useAuth
Init ==
    /\ InitUI
    /\ build = "hooks"
    /\ folders = <<Folder(FolderId(1), <<"W">>, Null)>>
    /\ bookmarks \in SampleBookmarks

Next ==
    \/ UpdateConfig
    \/ Tick
    \/ useFolders_createFolder
    \/ useFolders_updateFolder
    \/ useBookmarks_addBookmark
    \/ useBookmarks_updateBookmark
    \/ useBookmarks_deleteBookmark
    \/ useBookmarks_toggleFavorite

Spec == Init /\ [][Next]_vars

\* The folder collection of either build
InitFolders ==
    /\ InitUI
    /\ build \in {"App", "hooks"}
    /\ folders \in SampleFolders
    /\ bookmarks = <<SampleBookmark>>

NextFolders ==
    \/ UpdateConfig
    \/ Tick
    \/ useFolders_createFolder
    \/ useFolders_updateFolder
    \/ App_createFolder

SpecFolders == InitFolders /\ [][NextFolders]_vars

\* The bookmark collection and the details panel of App.tsx
InitApp ==
    /\ InitUI
    /\ build = "App"
    /\ folders = <<Folder(FolderId(1), <<"W">>, Null)>>
    /\ bookmarks = <<SampleBookmark>>

NextApp ==
    \/ UpdateConfig
    \/ App_setSelectedFolder
    \/ App_handleBookmarkClick
    \/ App_closePanels
    \/ App_handleAddBookmark
    \/ App_updateBookmark
    \/ App_deleteBookmark
    \/ App_toggleFavorite

SpecApp == InitApp /\ [][NextApp]_vars

\* The bookmark collection of the hooks build
InitBookmarks ==
    /\ InitUI
    /\ build = "hooks"
    /\ folders = <<Folder(FolderId(1), <<"W">>, Null)>>
    /\ bookmarks \in SampleBookmarks

NextBookmarks ==
    \/ UpdateConfig
    \/ Tick
    \/ useBookmarks_addBookmark
    \/ useBookmarks_updateBookmark
    \/ useBookmarks_deleteBookmark
    \/ useBookmarks_toggleFavorite

SpecBookmarks == InitBookmarks /\ [][NextBookmarks]_vars

\* Authentication: the store of the hooks build behind a key that is loaded from
\* localStorage and saved again, valid or not; the effect of the mount has run
InitAuth ==
    /\ now = Epoch
    /\ apiKey \in ApiKeys
    /\ isAuthenticated = IsValid(apiKey)
    /\ flattenSubfolders = TRUE
    /\ selectedFolder = All
    /\ selectedTag = Null
    /\ searchQuery = <<>>
    /\ selectedBookmark = <<>>
    /\ showRightPanel = FALSE
    /\ showConfigModal = FALSE
    /\ urlFolder = Null
    /\ urlTag = Null
    /\ hist = <<>>
    /\ histIdx = 0
    /\ last = Call("mount", TRUE, "undefined")
    /\ build = "hooks"
    /\ folders = <<Folder(FolderId(1), <<"W">>, Null)>>
    /\ bookmarks \in SampleBookmarks

NextAuth ==
    \/ SaveConfig
    \/ useFolders_createFolder
    \/ useFolders_updateFolder
    \/ useBookmarks_addBookmark
    \/ useBookmarks_updateBookmark
    \/ useBookmarks_deleteBookmark
    \/ useBookmarks_toggleFavorite

SpecAuth == InitAuth /\ [][NextAuth]_vars

\* The bookmark collection of the hooks build, with events that call two mutations
NextRender ==
    \/ NextBookmarks
    \/ useBookmarks_twoCallsInOneRender

SpecRender == InitBookmarks /\ [][NextRender]_vars

(***************************************************************************)
(* The view: filteredBookmarks and the tree walks as functions of a store  *)
(* and a selection drawn from bounded sets                                 *)
(***************************************************************************)
MaxTreeFolders == 3   \* folder collections of the view hold at most this many folders
MaxViewBookmarks == 2 \* bookmark collections of the view hold at most this many bookmarks

\* Folder collections: folder i has the id folder-i and is a root, a child of an
\* earlier folder, or the child of a folder the store does not hold.
RECURSIVE TreesOf(_)
TreesOf(n) ==
    IF n = 0 THEN {<<>>}
    ELSE {Append(fs, Folder(FolderId(n), <<"N">>, p)) :
              fs \in TreesOf(n - 1),
              p \in {Null, FolderId(MaxTreeFolders + 1)} \cup {FolderId(k) : k \in 1..(n - 1)}}

ViewFolders == UNION {TreesOf(n) : n \in 0..MaxTreeFolders}

SearchedWord == <<"E", "X", "A", "M", "P", "L", "E">>

ViewBookmarkPool ==
    {SampleBookmark,
     [id |-> BookmarkId(2), title |-> <<"a", " ", "B">>, url |-> <<"u">>,
      description |-> <<"z", "q">>, thumbnail |-> <<>>, tags |-> <<<<"X">>, <<"b">>>>,
      folderId |-> FolderId(2), favorite |-> TRUE, dateAdded |-> 0],
     [id |-> BookmarkId(3), title |-> <<"c">>, url |-> <<"u">>,
      description |-> <<"a">>, thumbnail |-> <<>>, tags |-> <<>>,
      folderId |-> Null, favorite |-> FALSE, dateAdded |-> 0],
     [id |-> BookmarkId(4), title |-> <<"c">>, url |-> <<"u">>,
      description |-> <<>>, thumbnail |-> <<>>, tags |-> <<<<"x">>, <<"X">>>>,
      folderId |-> FolderId(3), favorite |-> TRUE, dateAdded |-> 0]}

RECURSIVE SeqsUpTo(_, _)
SeqsUpTo(S, n) ==
    IF n = 0 THEN {<<>>}
    ELSE SeqsUpTo(S, n - 1) \cup
         {Append(q, x) : q \in {r \in SeqsUpTo(S, n - 1) : Len(r) = n - 1}, x \in S}

ViewBookmarks ==
    {bs \in SeqsUpTo(ViewBookmarkPool, MaxViewBookmarks) :
        \A i, j \in 1..Len(bs) : i < j => bs[i].id # bs[j].id}

\* what the search box can hold
Queries == {<<>>, <<" ">>, <<"a">>, <<" ", "a">>, <<"q">>, <<"X">>, SearchedWord}

ViewScopes == {All, Favorites, Null, FolderId(1), FolderId(2), FolderId(MaxTreeFolders + 1)}

ViewTags == {Null, <<"x">>}

\* the search input's onChange
SetSearchQuery ==
    \E q \in Queries :
        /\ q # searchQuery
        /\ searchQuery' = q
        /\ UNCHANGED <<build, now, authVars, storeVars, selectedFolder, selectedTag,
                       flattenSubfolders, panelVars, navVars, last>>

\* Sidebar's onSelectFolder with what App.tsx passes for it, setSelectedFolder
SetSelectedFolder ==
    \E f \in {All, Favorites} \cup {folders[i].id : i \in 1..Len(folders)} :
        /\ f # selectedFolder
        /\ selectedFolder' = f
        /\ UNCHANGED <<build, now, authVars, storeVars, selectedTag, searchQuery,
                       flattenSubfolders, panelVars, navVars, last>>

InitView ==
    /\ build = "App"
    /\ now = Epoch
    /\ apiKey = <<>>
    /\ isAuthenticated = FALSE
    /\ flattenSubfolders \in BOOLEAN
    /\ folders \in ViewFolders
    /\ bookmarks \in ViewBookmarks
    /\ selectedFolder \in ViewScopes
    /\ selectedTag \in ViewTags
    /\ searchQuery = <<>>
    /\ selectedBookmark = <<>>
    /\ showRightPanel = FALSE
    /\ showConfigModal = FALSE
    /\ urlFolder = Null
    /\ urlTag = Null
    /\ hist = <<>>
    /\ histIdx = 0
    /\ last = Call("mount", TRUE, "undefined")

NextView ==
    \/ SetSearchQuery
    \/ SetSelectedFolder

SpecView == InitView /\ [][NextView]_vars

(***************************************************************************)
(* The tree walks over folder collections of any shape                     *)
(***************************************************************************)
\* Folder collections of any shape: folder n is named by the n-th capital letter, its
\* id is folder-n or the first folder's id again, and its parentId is null, any id
\* of the collection (its own too) or an id the store does not hold.
RECURSIVE ShapesOf(_)
ShapesOf(n) ==
    IF n = 0 THEN {<<>>}
    ELSE {Append(fs, Folder(id, <<UpperCase[n]>>, p)) :
              fs \in ShapesOf(n - 1),
              id \in {FolderId(n), FolderId(1)},
              p \in {Null} \cup {FolderId(k) : k \in 1..(MaxTreeFolders + 1)}}

TreeFolders == UNION {ShapesOf(n) : n \in 0..MaxTreeFolders}

TreeBookmarks ==
    {bs \in ViewBookmarks :
        \/ bs = <<>>
        \/ Len(bs) = MaxViewBookmarks /\ \A i \in 1..(Len(bs) - 1) : bs[i].id[2] < bs[i + 1].id[2]}

\* the ids the walks are called with: every id of the store and one it does not hold
WalkArgs == {folders[i].id : i \in 1..Len(folders)} \cup {FolderId(MaxTreeFolders + 1)}

InitTree ==
    /\ InitUI
    /\ build = "hooks"
    /\ folders \in TreeFolders
    /\ bookmarks \in TreeBookmarks

NextTree ==
    \/ UpdateConfig
    \/ useFolders_updateFolder

SpecTree == InitTree /\ [][NextTree]_vars

(***************************************************************************)
(* Selection and the browser history: useSelectedFolder, useSelectedTag    *)
(***************************************************************************)
\* One entry of the session history: the state object given to pushState (type
\* "none" for the entry of the page load, whose state is null) and the folder and tag
\* parameters of its URL.
HistEntry(type, id, folder, tag) == [type |-> type, id |-> id, folder |-> folder, tag |-> tag]

\* the location and the history as one value
NavOf(folder, tag, h, idx) == [folder |-> folder, tag |-> tag, hist |-> h, idx |-> idx]

\* window.history.pushState: the entries after the current one are dropped
PushState(n, type, id, folder, tag) ==
    NavOf(folder, tag, Append(SubSeq(n.hist, 1, n.idx), HistEntry(type, id, folder, tag)),
          n.idx + 1)

\* the effect of useSelectedFolder on [selectedFolder]
FolderEffect(selFolder, n) ==
    IF Truthy(selFolder) /\ selFolder # n.folder
    THEN PushState(n, "folder", selFolder, selFolder, Null)
    ELSE IF ~Truthy(selFolder) /\ Truthy(n.folder)
         THEN PushState(n, "folder", Null, Null, n.tag)
         ELSE n

\* the effect of useSelectedTag on [selectedTag]
TagEffect(selTag, n) ==
    IF Truthy(selTag) /\ selTag # n.tag
    THEN PushState(n, "tag", selTag, Null, selTag)
    ELSE IF ~Truthy(selTag) /\ Truthy(n.tag)
         THEN PushState(n, "tag", Null, n.folder, Null)
         ELSE n

\* The effects that run after a render: each one only when its dependency changed,
\* useSelectedFolder's before useSelectedTag's.
RunEffects(selFolder, selTag, n) ==
    LET n1 == IF selFolder # selectedFolder THEN FolderEffect(selFolder, n) ELSE n
    IN  IF selTag # selectedTag THEN TagEffect(selTag, n1) ELSE n1

\* handlePopState of useSelectedFolder: the selection after the event
FolderAfterPopState(entry) ==
    IF entry.type \in {"none", "folder"} /\ entry.folder # selectedFolder
    THEN (IF Truthy(entry.folder) THEN entry.folder ELSE All)
    ELSE selectedFolder

\* handlePopState of useSelectedTag: the selection after the event
TagAfterPopState(entry) ==
    IF entry.type \in {"none", "tag"} /\ entry.tag # selectedTag
    THEN entry.tag
    ELSE selectedTag

\* a render with a new selection, followed by its effects
Render(selFolder, selTag, n) ==
    LET n2 == RunEffects(selFolder, selTag, n)
    IN  /\ Len(n2.hist) <= MaxHist
        /\ selectedFolder' = selFolder
        /\ selectedTag' = selTag
        /\ urlFolder' = n2.folder
        /\ urlTag' = n2.tag
        /\ hist' = n2.hist
        /\ histIdx' = n2.idx
        /\ UNCHANGED <<build, now, authVars, storeVars, searchQuery, flattenSubfolders,
                       panelVars, last>>

NavTags == {<<"x">>, <<"y">>}

\* Selecting a folder scope in the sidebar: the folder is selected and the tag cleared.
SelectFolder ==
    \E f \in {All, Favorites} \cup {folders[i].id : i \in 1..Len(folders)} :
        /\ build = "hooks"
        /\ <<f, Null>> # <<selectedFolder, selectedTag>>
        /\ Render(f, Null, NavOf(urlFolder, urlTag, hist, histIdx))

\* Clicking a tag in the sidebar, which passes null for the tag that is selected:
\* the tag is selected and the folder selection cleared.
SelectTag ==
    \E tag \in NavTags :
        /\ build = "hooks"
        /\ Render(IF selectedTag = tag THEN selectedFolder ELSE Null,
                  IF selectedTag = tag THEN Null ELSE tag,
                  NavOf(urlFolder, urlTag, hist, histIdx))

\* The popstate event of browser Back (-1) or Forward (+1): both hooks' handlers run
\* on the entry the browser moved to.
PopState ==
    \E delta \in {-1, 1} :
        /\ build = "hooks"
        /\ histIdx + delta \in 1..Len(hist)
        /\ Render(FolderAfterPopState(hist[histIdx + delta]),
                  TagAfterPopState(hist[histIdx + delta]),
                  NavOf(hist[histIdx + delta].folder, hist[histIdx + delta].tag,
                        hist, histIdx + delta))

\* getInitialFolder: the selection a page load starts with, from the 'folder'
\* parameter of its URL
GetInitialFolder(fs, folderParam) ==
    IF folderParam = Favorites THEN Favorites
    ELSE IF folderParam = All THEN All
    ELSE IF Truthy(folderParam) /\ \E i \in 1..Len(fs) : fs[i].id = folderParam
         THEN folderParam
         ELSE All

\* the 'folder' parameter of the URL the page is loaded with: none, the two fixed
\* scopes, the id of a folder and an id that no folder has
LoadParams == {Null, All, Favorites, FolderId(1), FolderId(MaxFolders + 1)}

\* the parentId FolderModal is opened with: null from the sidebar's button, the
\* selected folder from MainContent's "Add subfolder", shown for a folder scope
ModalParents ==
    {Null} \cup (IF selectedFolder # All /\ selectedFolder # Favorites /\ ~Truthy(selectedTag)
                 THEN {selectedFolder}
                 ELSE {})

\* handleSave of FolderModal after handleAddFolder opened it: the user keeps the
\* parent the modal was opened with or picks "No Parent" or a listed folder, and
\* createFolder of useFolders gets the trimmed name and that parent
FolderModal_handleSave ==
    \E name \in FolderNames, opened \in ModalParents :
        \E parentId \in {opened, Null} \cup ListedFolderIds(folders) :
            /\ build = "hooks"
            /\ isAuthenticated
            /\ Len(folders) < MaxFolders
            /\ folders' = Append(folders, NewFolderOf(FolderId(now), name, parentId))
            /\ last' = CallOf("createFolder", parentId, TRUE, "undefined")
            /\ UNCHANGED <<build, now, authVars, bookmarks, viewVars, panelVars, navVars>>

\* The page was loaded with or without a 'folder' parameter and without a 'tag'
\* parameter: getInitialFolder gave the selection, getInitialTag null, and the first
\* run of the folder effect pushed an entry where the selection is not the parameter.
InitNav ==
    /\ build = "hooks"
    /\ now = Epoch
    /\ apiKey = <<>>
    /\ isAuthenticated = FALSE
    /\ flattenSubfolders = TRUE
    /\ folders = <<Folder(FolderId(1), <<"W">>, Null)>>
    /\ bookmarks = <<SampleBookmark>>
    /\ selectedTag = Null
    /\ searchQuery = <<>>
    /\ selectedBookmark = <<>>
    /\ showRightPanel = FALSE
    /\ showConfigModal = FALSE
    /\ urlTag = Null
    /\ \E folderParam \in LoadParams :
           LET loaded == NavOf(folderParam, Null,
                               <<HistEntry("none", Null, folderParam, Null)>>, 1)
               mounted == FolderEffect(GetInitialFolder(folders, folderParam), loaded)
           IN  /\ selectedFolder = GetInitialFolder(folders, folderParam)
               /\ urlFolder = mounted.folder
               /\ hist = mounted.hist
               /\ histIdx = mounted.idx
    /\ last = Call("mount", TRUE, "undefined")

NextNav ==
    \/ SelectFolder
    \/ SelectTag
    \/ PopState

SpecNav == InitNav /\ [][NextNav]_vars

\* Folder selection and the browser history together with the folder collection:
\* folders are selected, added through FolderModal and renamed
NextFolderNav ==
    \/ SelectFolder
    \/ PopState
    \/ UpdateConfig
    \/ FolderModal_handleSave
    \/ useFolders_updateFolder

SpecFolderNav == InitNav /\ [][NextFolderNav]_vars

(***************************************************************************)
(* Properties                                                              *)
(***************************************************************************)
\* This step is one call of the handler `op`: the call record names it, and the
\* record or the store is not what it was (a step that changes neither is no step).
SingleCall(op) ==
    /\ last'.op = op
    /\ last'.calls = <<>>
    /\ (last' # last \/ folders' # folders \/ bookmarks' # bookmarks)

\* C1: while isAuthenticated is false, no call of createFolder, updateFolder,
\* addBookmark, updateBookmark, deleteBookmark or toggleFavorite (no step at all)
\* changes the folder collection or the bookmark collection.
C1_GateLeavesStoreUntouched ==
    [][~isAuthenticated => (folders' = folders /\ bookmarks' = bookmarks)]_vars

\* a mutation was called on a non-empty store while unauthenticated and was turned away
C1_Witness ==
    /\ ~isAuthenticated
    /\ ~last.ok
    /\ folders # <<>>
    /\ bookmarks # <<>>

\* C2: no folder is its own ancestor: following parentId from a folder never comes
\* back to that folder.
C2_NoFolderIsItsOwnAncestor ==
    \A i \in 1..Len(folders) : ~IsOwnAncestor(folders, i)

\* C3: every folder of the store has an id different from every other folder's id.
C3_FolderIdsAreUnique ==
    \A i, j \in 1..Len(folders) : i # j => folders[i].id # folders[j].id

\* C4: for a selected folder r of the store, no tag and an empty query, the filter
\* returns exactly the bookmarks filed in r or in a descendant of r when
\* flattenSubfolders is true, and exactly the bookmarks filed in r when it is false.
C4_FlattenSemantics ==
    (/\ selectedFolder \in {folders[i].id : i \in 1..Len(folders)}
     /\ selectedTag = Null
     /\ searchQuery = <<>>)
    => filteredBookmarks =
           ArrayFilter(bookmarks,
               [i \in 1..Len(bookmarks) |->
                   IF flattenSubfolders
                   THEN bookmarks[i].folderId \in
                            {selectedFolder} \cup Range(getAllChildFolderIds(selectedFolder))
                   ELSE bookmarks[i].folderId = selectedFolder])

\* C5: whenever a tag x is selected and the query is empty, the filter returns exactly
\* the bookmarks whose tags hold x, whatever selectedFolder and flattenSubfolders are.
C5_TagScopeIgnoresFolderScope ==
    (selectedTag # Null /\ searchQuery = <<>>)
    => filteredBookmarks =
           ArrayFilter(bookmarks,
               [i \in 1..Len(bookmarks) |-> selectedTag \in Range(bookmarks[i].tags)])

\* C6: after any sequence of select-folder, select-tag and browser Back/Forward
\* events, a folder scope and a tag scope are never both selected.
C6_SelectionMutualExclusion ==
    ~(selectedFolder # Null /\ selectedTag # Null)

\* C7: for a query whose trimmed form is not empty, a bookmark that passes the scope
\* filter is in the filter's result if and only if the lower-cased trimmed query is a
\* substring of its lower-cased title, of its lower-cased url or of one of its
\* lower-cased tags.
C7_SearchCharacterisation ==
    Trim(searchQuery) # <<>>
    => \A i \in 1..Len(bookmarks) :
           MatchesScope(folders, bookmarks[i], selectedFolder)
           => (bookmarks[i] \in Range(filteredBookmarks)
               <=> LET q == ToLowerCase(Trim(searchQuery))
                   IN  \/ Includes(ToLowerCase(bookmarks[i].title), q)
                       \/ Includes(ToLowerCase(bookmarks[i].url), q)
                       \/ \E t \in 1..Len(bookmarks[i].tags) :
                              Includes(ToLowerCase(bookmarks[i].tags[t]), q))

\* C8: the filter's result for a query is its result for the trimmed query, so that a
\* query of whitespace only keeps every bookmark that passes the scope filter.
C8_QueryIsTrimmed ==
    filteredBookmarks =
        FilteredBookmarksOf(bookmarks, folders, selectedFolder, selectedTag,
                            Trim(searchQuery), flattenSubfolders)

\* C9: with selectedFolder = 'all', no tag and an empty query the filter returns the
\* bookmark collection itself: every bookmark once, in the store's order.
C9_AllScopeReturnsTheStore ==
    \A flatten \in BOOLEAN :
        FilteredBookmarksOf(bookmarks, folders, All, Null, <<>>, flatten) = bookmarks

\* the store holds two bookmarks that differ in their folder or their favorite flag,
\* after an accepted mutation, and the view is 'all' with no tag and no query
C9_Witness ==
    /\ selectedFolder = All /\ selectedTag = Null /\ searchQuery = <<>>
    /\ last.ok
    /\ Len(bookmarks) = 2
    /\ bookmarks[1].favorite # bookmarks[2].favorite
    /\ bookmarks[1].folderId # bookmarks[2].folderId
    /\ filteredBookmarks = bookmarks

\* C10: in an acyclic folder collection the descendant ids of a folder never hold the
\* folder's own id.
C10_DescendantsExcludeTheFolder ==
    Acyclic(folders)
    => \A i \in 1..Len(folders) :
           folders[i].id \notin Range(getAllChildFolderIds(folders[i].id))

\* a chain of three folders: the first one's descendants are its child and grandchild
C10_Witness ==
    /\ Len(folders) = 3
    /\ Acyclic(folders)
    /\ folders[2].parentId = folders[1].id
    /\ folders[3].parentId = folders[2].id
    /\ getAllChildFolderIds(folders[1].id) = <<folders[2].id, folders[3].id>>

\* C11: on a folder collection whose parent graph is acyclic, getAllChildFolderIds,
\* countFolderBookmarks and getFolderPathName return for every id, whether the store
\* holds it or not.
C11_TreeWalksTerminate ==
    Acyclic(folders)
    => \A id \in WalkArgs :
           /\ getAllChildFolderIds(id) # <<Diverged>>
           /\ countFolderBookmarks(id) # CountDiverged
           /\ getFolderPathName(id) # PathDiverged

\* an acyclic chain of three folders with a bookmark below the first one: the walks
\* from the first folder go two levels down, the path of the last one two levels up
C11_Witness ==
    /\ Len(folders) = 3
    /\ Acyclic(folders)
    /\ folders[2].parentId = folders[1].id
    /\ folders[3].parentId = folders[2].id
    /\ Len(getAllChildFolderIds(folders[1].id)) = 2
    /\ countFolderBookmarks(folders[1].id) > 0
    /\ Len(getFolderPathName(folders[3].id)) > Len(folders[3].name) + Len(PathSeparator)

\* C12: the result of getAllChildFolderIds holds exactly the ids reachable from its
\* argument through children, and holds no id twice, whatever the shape of the
\* folder collection.
C12_DescendantsAreTheReachableIdsOnce ==
    \A id \in WalkArgs :
        LET ids == getAllChildFolderIds(id)
        IN  ids # <<Diverged>>
            => /\ Range(ids) = DescendantIds(folders, {id}, Len(folders))
               /\ \A i, j \in 1..Len(ids) : i # j => ids[i] # ids[j]

C14_PathJoinsTheChain ==
    Acyclic(folders)
    => \A id \in {folders[i].id : i \in 1..Len(folders)} :
           LET chain == AncestorChain(folders, FindFolder(folders, id), Len(folders))
           IN  ~Truthy(folders[chain[1]].parentId)
               => getFolderPathName(id) =
                      Flatten([k \in 1..Len(chain) |->
                                  IF k = 1 THEN folders[chain[k]].name
                                  ELSE PathSeparator \o folders[chain[k]].name])

\* a chain of three folders whose middle one was just renamed: the path of the last
\* one shows the new name between the two others
C14_Witness ==
    /\ last.ok /\ isAuthenticated
    /\ Len(folders) = 3
    /\ folders[1].parentId = Null
    /\ folders[2].parentId = folders[1].id
    /\ folders[3].parentId = folders[2].id
    /\ folders[2].name = <<"W">>
    /\ getFolderPathName(folders[3].id) =
           <<"A", " ", ">", " ", "W", " ", ">", " ", "C">>

C16_UnknownFolderSelectsNothing ==
    \A q \in Queries, flatten \in BOOLEAN :
        LET unknown == FolderId(MaxFolders + 1)
        IN  /\ ~FilterThrowsOf(bookmarks, folders, unknown)
            /\ FilteredBookmarksOf(bookmarks, folders, unknown, Null, q, flatten) = <<>>

\* C17: with selectedFolder = null, no tag and an empty query the filter keeps every
\* bookmark of the store, whatever its folderId is.
C17_NullScopeKeepsAll ==
    (selectedFolder = Null /\ selectedTag = Null /\ searchQuery = <<>>)
    => filteredBookmarks = bookmarks

\* C18: no call of createFolder or renameFolder with a name that trims to empty
\* changes the folder collection: every folder a step adds and every name a step
\* changes has a name that does not trim to empty.
C18_BlankNamesAreNoOps ==
    [][\A i \in 1..Len(folders') :
          (i > Len(folders) \/ folders'[i].name # folders[i].name)
          => Trim(folders'[i].name) # <<>>]_vars

\* C19: a mutation turned away for lack of authentication tells its caller so: what
\* it returns differs from the undefined that an accepted call returns, or the
\* authentication prompt is open (showConfigModal).
C19_RejectionIsSignalled ==
    ~last.ok => (last.ret # "undefined" \/ showConfigModal)

\* C20: when two accepted mutations are issued one after the other, through the
\* functions of one render included, the store afterwards is the second mutation
\* applied to the result of the first.
C20_NoLostUpdate ==
    [][(last'.calls # <<>> /\ (last' # last \/ bookmarks' # bookmarks))
       => bookmarks' = SetBookmarksArg(SetBookmarksArg(bookmarks, last'.calls[1]),
                                       last'.calls[2])]_vars

\* C21: an authenticated addBookmark appends exactly one bookmark at the end of the
\* collection; the new bookmark has favorite = false and folderId = null when the
\* scope is 'all' or 'favorites' and folderId = the scope otherwise; the bookmarks
\* already there and the folder collection stay as they were.
C21_AddBookmarkAppendsOne ==
    [][((SingleCall("addBookmark") \/ SingleCall("handleAddBookmark")) /\ isAuthenticated)
       => /\ Len(bookmarks') = Len(bookmarks) + 1
          /\ SubSeq(bookmarks', 1, Len(bookmarks)) = bookmarks
          /\ bookmarks'[Len(bookmarks')].favorite = FALSE
          /\ bookmarks'[Len(bookmarks')].folderId =
                 IF last'.arg = All \/ last'.arg = Favorites THEN Null ELSE last'.arg
          /\ folders' = folders]_vars

\* addBookmark was just accepted with a folder id as its scope, next to a bookmark
\* that was there before: the new one is the last, filed under the scope, no favorite
C21_Witness ==
    /\ last.op = "addBookmark" /\ last.ok
    /\ last.arg = FolderId(1)
    /\ Len(bookmarks) = 2
    /\ bookmarks[1].id = SampleBookmark.id
    /\ bookmarks[2].folderId = FolderId(1)
    /\ ~bookmarks[2].favorite

\* C22: an authenticated updateBookmark, toggleFavorite, deleteBookmark or
\* renameFolder with id i changes (or removes) exactly the one entity whose id is i:
\* every other entity, the order, the other collection and, for renameFolder, the
\* folder's id and parentId stay as they were; when no entity has the id i the whole
\* store stays as it was.
C22_TargetedMutationsTouchOnlyTheirTarget ==
    [][isAuthenticated
       => /\ \A op \in {"updateBookmark", "toggleFavorite", "deleteBookmark"} :
                 SingleCall(op)
                 => LET hits == {k \in 1..Len(bookmarks) : bookmarks[k].id = last'.arg}
                    IN  /\ folders' = folders
                        /\ hits = {} => bookmarks' = bookmarks
                        /\ hits # {}
                           => \E k \in hits :
                                  IF op = "deleteBookmark"
                                  THEN bookmarks' = SubSeq(bookmarks, 1, k - 1)
                                                    \o SubSeq(bookmarks, k + 1, Len(bookmarks))
                                  ELSE /\ Len(bookmarks') = Len(bookmarks)
                                       /\ bookmarks'[k].id = last'.arg
                                       /\ \A j \in 1..Len(bookmarks) :
                                              j # k => bookmarks'[j] = bookmarks[j]
          /\ SingleCall("updateFolder")
             => LET hits == {k \in 1..Len(folders) : folders[k].id = last'.arg}
                IN  /\ bookmarks' = bookmarks
                    /\ Len(folders') = Len(folders)
                    /\ \A j \in 1..Len(folders) :
                           /\ folders'[j].id = folders[j].id
                           /\ folders'[j].parentId = folders[j].parentId
                    /\ hits = {} => folders' = folders
                    /\ hits # {}
                       => \E k \in hits :
                              \A j \in 1..Len(folders) : j # k => folders'[j] = folders[j]]_vars

\* C23: an authenticated toggleFavorite(id) flips the favorite flag of the bookmark
\* with that id and changes nothing else; two consecutive authenticated
\* toggleFavorite(id) calls, whether a render lies between them or not, leave the
\* store exactly as it was before the first; and under selectedFolder = 'favorites'
\* with an empty query the filter returns exactly the bookmarks whose favorite flag
\* is true after the latest toggle.
C23_ToggleFavoriteIsAnInvolution ==
    [][/\ (isAuthenticated /\ SingleCall("toggleFavorite"))
          => /\ Len(bookmarks') = Len(bookmarks)
             /\ \A k \in 1..Len(bookmarks) :
                    bookmarks'[k] =
                        IF bookmarks[k].id = last'.arg
                        THEN [bookmarks[k] EXCEPT !.favorite = ~bookmarks[k].favorite]
                        ELSE bookmarks[k]
             /\ ToggleIn(bookmarks', last'.arg) = bookmarks
       /\ (/\ Len(last'.calls) = 2
           /\ last'.calls[1] = last'.calls[2]
           /\ last'.calls[1].op = "toggleFavorite")
          => bookmarks' = bookmarks
       /\ \A flatten \in BOOLEAN :
              FilteredBookmarksOf(bookmarks', folders', Favorites, Null, <<>>, flatten) =
                  ArrayFilter(bookmarks', [k \in 1..Len(bookmarks') |-> bookmarks'[k].favorite])
      ]_vars

C25_SelectedBookmarkMatchesTheStore ==
    [][/\ selectedBookmark' # <<>>
          => /\ \E k \in 1..Len(bookmarks') : bookmarks'[k].id = selectedBookmark'[1].id
             /\ \A k \in 1..Len(bookmarks') :
                    bookmarks'[k].id = selectedBookmark'[1].id
                    => bookmarks'[k] = selectedBookmark'[1]
       /\ (isAuthenticated /\ SingleCall("deleteBookmark"))
          => IF selectedBookmark # <<>> /\ selectedBookmark[1].id = last'.arg
             THEN selectedBookmark' = <<>> /\ ~showRightPanel'
             ELSE selectedBookmark' = selectedBookmark]_vars

\* C26: starting from bookmarks with pairwise distinct ids, after any interleaving of
\* authenticated addBookmark and deleteBookmark calls no two bookmarks of the store
\* share an id.
C26_BookmarkIdsAreUnique ==
    \A i, j \in 1..Len(bookmarks) : i # j => bookmarks[i].id # bookmarks[j].id

\* C27: starting from folders whose parentId is null or the id of a stored folder,
\* after any sequence of folder selections, browser Back/Forward, add-folder,
\* add-subfolder and rename actions every folder's parentId is null or the id of a
\* folder of the store, and every folder is reached from a root, so that the sidebar
\* tree shows it.
C27_FolderParentsExist ==
    \A i \in 1..Len(folders) :
        /\ \/ folders[i].parentId = Null
           \/ \E j \in 1..Len(folders) : folders[j].id = folders[i].parentId
        /\ folders[i].id \in ListedFolderIds(folders)

\* C28: after any sequence of addBookmark calls and of updateBookmark calls made
\* through the details form, "No Folder" among its choices, every bookmark's folderId
\* is null or the id of a folder of the store, never an empty string and never an id
\* that no folder has.
C28_BookmarkFoldersExist ==
    \A k \in 1..Len(bookmarks) :
        \/ bookmarks[k].folderId = Null
        \/ \E j \in 1..Len(folders) : folders[j].id = bookmarks[k].folderId

\* C29: in every store state with pairwise distinct folder ids and for every folder F
\* of the store, countFolderBookmarks(F) is the number of bookmarks the filter
\* returns for selectedFolder = F with flattening on, no tag and an empty query,
\* which is the number of bookmarks filed in F or in a descendant of F.
C29_BadgeAgreesWithTheFlattenedView ==
    (\A i, j \in 1..Len(folders) : i # j => folders[i].id # folders[j].id)
    => \A F \in {folders[i].id : i \in 1..Len(folders)} :
           /\ ~FilterThrowsOf(bookmarks, folders, F)
           /\ countFolderBookmarks(F) =
                  Len(FilteredBookmarksOf(bookmarks, folders, F, Null, <<>>, TRUE))
           /\ countFolderBookmarks(F) =
                  Cardinality({k \in 1..Len(bookmarks) :
                                  bookmarks[k].folderId \in
                                      {F} \cup DescendantIds(folders, {F}, Len(folders))})

\* C30: when the page has loaded and after any sequence of sidebar folder selections
\* and browser Back/Forward events, selectedFolder is 'all', 'favorites' or the id of
\* a folder of the store.
C30_SelectedFolderIsResolvable ==
    selectedFolder \in {All, Favorites} \cup {folders[i].id : i \in 1..Len(folders)}

====
